---- MODULE Spec2Model ----
(***************************************************************************)
(* Model of src/ui/src/App.vue, the shell component of the dashboard:      *)
(* the two refs of the script block, the asynchronous onMounted hook, the  *)
(* v-if / v-else-if chain of the template and the dispatch of click events *)
(* through the elements the template renders.                              *)
(***************************************************************************)
EXTENDS Integers, Sequences, FiniteSets, TLC

VARIABLES
    userData,         \* ref "userData" (line 7)
    showUserOptions,  \* ref "showUserOptions" (line 8)
    lifecycle,        \* "setup" | "mounted" | "unmounted"
    pc,               \* position of the onMounted callback (lines 10-21)
    res,              \* the Response that fetch resolved with, or NoRes
    bodyListeners,    \* click listeners registered on document.body (line 18)
    route,            \* current router path, changed by the RouterLinks
    location,         \* "app", or "/api/auth/signout" once the browser left
    lastClick         \* the click most recently dispatched: its target and
                      \* whether div.options was in the document then

vars == <<userData, showUserOptions, lifecycle, pc, res, bodyListeners,
          route, location, lastClick>>

----------------------------------------------------------------------------
(* JavaScript values, tagged by type.                                      *)

JUndef == [t |-> "undefined"]
JNull == [t |-> "null"]
JBool(b) == [t |-> "bool", b |-> b]
JNum(n) == [t |-> "num", n |-> n]
JStr(s) == [t |-> "str", s |-> s]
JArr(a) == [t |-> "arr", a |-> a]
JObj(o) == [t |-> "obj", o |-> o]

(* The strings the model draws display names and addresses from.           *)
Names == {"", "A. User", "0"}
Mails == {"auser@example.com"}

(* String(n) for the single-digit numbers of the model.                    *)
NumberToString(n) ==
    <<"0", "1", "2", "3", "4", "5", "6", "7", "8", "9">>[n + 1]

(* ToNumber(v) = 0 for a primitive v. A string converts to 0 when it is    *)
(* empty or a zero literal; every other string of the model is "1".."9"    *)
(* or not numeric (NaN).                                                   *)
IsZeroNumber(v) ==
    CASE v.t = "bool" -> ~v.b
      [] v.t = "num" -> v.n = 0
      [] v.t = "str" -> v.s \in {"", "0"}
      [] OTHER -> FALSE

(* ToPrimitive of an object: an array joins its elements with ",", a plain *)
(* object gives "[object Object]".                                         *)
ElementToString(e) ==
    CASE e.t = "str" -> e.s
      [] e.t = "num" -> NumberToString(e.n)
      [] e.t = "bool" -> IF e.b THEN "true" ELSE "false"
      [] OTHER -> ""

ToPrimitive(v) ==
    CASE v.t = "arr" ->
            JStr(IF Len(v.a) = 0 THEN ""
                 ELSE IF Len(v.a) = 1 THEN ElementToString(v.a[1])
                 ELSE "joined,elements")
      [] v.t = "obj" -> JStr("[object Object]")
      [] OTHER -> v

(* The loose comparison `v == false` (IsLooselyEqual): null and undefined  *)
(* equal only each other; everything else is compared as a number with 0.  *)
LooseEqFalse(v) ==
    CASE v.t \in {"null", "undefined"} -> FALSE
      [] OTHER -> IsZeroNumber(ToPrimitive(v))

(* ToBoolean(v): the truthiness test of v-else-if="userData".              *)
ToBoolean(v) ==
    CASE v.t \in {"null", "undefined"} -> FALSE
      [] v.t = "bool" -> v.b
      [] v.t = "num" -> v.n # 0
      [] v.t = "str" -> v.s # ""
      [] OTHER -> TRUE

(* Property read v.key of a non-nullish value.                             *)
Get(v, key) ==
    IF v.t = "obj" /\ key \in DOMAIN v.o THEN v.o[key] ELSE JUndef

(* Vue's toDisplayString, used by {{ }} interpolation.                     *)
toDisplayString(v) ==
    CASE v.t \in {"null", "undefined"} -> ""
      [] v.t = "str" -> v.s
      [] v.t = "num" -> NumberToString(v.n)
      [] v.t = "bool" -> IF v.b THEN "true" ELSE "false"
      [] OTHER -> "[json]"

----------------------------------------------------------------------------
(* The identity endpoint.                                                  *)

Fields == {"displayName", "userPrincipalName", "mail"}

(* Session bodies: objects with the three string fields.                   *)
Sessions ==
    { JObj([displayName |-> JStr(n), userPrincipalName |-> JStr(m),
            mail |-> JStr(m)]) : n \in Names, m \in Mails }

(* Other JSON values a body can denote.                                    *)
OtherBodies ==
    { JNull, JBool(FALSE), JBool(TRUE), JNum(0), JNum(1), JStr(""),
      JStr("0"), JStr("A. User"), JArr(<<>>), JArr(<<JNum(0)>>),
      JArr(<<JNum(1)>>),
      JObj([mail |-> JStr("auser@example.com")]),
      JObj([displayName |-> JNull]),
      JObj([displayName |-> JNum(7)]) }

(* A payload that is not JSON: res.json() rejects.                         *)
Malformed == [t |-> "malformed"]

Bodies == Sessions \cup OtherBodies \cup {Malformed}

Statuses == {200, 201, 302, 401, 403, 500}

NoRes == [status |-> 0, body |-> Malformed]

(* Response.ok: the status is in the range 200-299.                        *)
Ok(r) == r.status >= 200 /\ r.status =< 299

IsSession(v) ==
    /\ v.t = "obj"
    /\ Fields \subseteq DOMAIN v.o
    /\ \A f \in Fields : v.o[f].t = "str"

----------------------------------------------------------------------------
(* The template.                                                           *)

(* Variant: the second branch tests userData.displayName.                  *)
Template_requiresName(u) ==
    IF LooseEqFalse(u) THEN "Forbidden"
    ELSE IF ToBoolean(Get(u, "displayName")) THEN "Shell"
    ELSE "Nothing"

(* The v-if / v-else-if chain of lines 25-29.                              *)
Template(u) ==
    IF LooseEqFalse(u) THEN "Forbidden"
    ELSE IF ToBoolean(u) THEN "Shell"
    ELSE "Nothing"

(* What the component has in the document.                                 *)
Output == IF lifecycle = "mounted" THEN Template(userData) ELSE "Nothing"

(* The text of <span>{{ userData.displayName }}</span> (line 68).          *)
DisplayedName == toDisplayString(Get(userData, "displayName"))

(* The tri-state of the spec, derived from userData as the template does.  *)
AuthState ==
    CASE Template(userData) = "Forbidden" -> "absent"
      [] Template(userData) = "Shell" -> "present"
      [] OTHER -> "unknown"

(* Elements, each with its parent; document.body is the root.              *)
Parent ==
    [ Forbidden |-> "body", shell |-> "body", aside |-> "shell",
      logo |-> "aside", nav |-> "aside",
      linkAnnouncements |-> "nav", linkDiscordUsers |-> "nav",
      linkPromotionSchedule |-> "nav",
      user |-> "aside", displayName |-> "user", options |-> "user",
      action |-> "options", signout |-> "action", data |-> "options",
      container |-> "shell", RouterView |-> "container" ]

ShellNodes ==
    {"shell", "aside", "logo", "nav", "linkAnnouncements",
     "linkDiscordUsers", "linkPromotionSchedule", "user", "displayName",
     "container", "RouterView"}

(* div.options and its descendants (lines 69-84).                          *)
PopoverNodes == {"options", "action", "signout", "data"}

(* div.user and its descendants outside the popover (lines 64-68).         *)
BadgeNodes == {"user", "displayName"}

(* The elements in the document in the current state.                      *)
Rendered ==
    {"body"} \cup
    CASE Output = "Forbidden" -> {"Forbidden"}
      [] Output = "Shell" ->
            ShellNodes \cup (IF showUserOptions THEN PopoverNodes ELSE {})
      [] OTHER -> {}

(* `to` of the RouterLinks (lines 31, 42, 49, 56).                         *)
LinkTo ==
    [ logo |-> "/", linkAnnouncements |-> "/announcements",
      linkDiscordUsers |-> "/discord/users",
      linkPromotionSchedule |-> "/promotion-schedule" ]

(* Variant: div.user without .stop.                                        *)
StopsAt_optionsOnly(n) == n = "options"

(* @click.stop: the elements whose listener calls stopPropagation.         *)
StopsAt(n) == n \in {"user", "options"}

(* Variant: the body listener leaves the flag alone.                       *)
ListenerAt_noDismiss(n, show) == IF n = "user" THEN TRUE ELSE show

(* The value of showUserOptions after the listeners of element n ran.      *)
ListenerAt(n, show) ==
    CASE n = "user" -> TRUE
      [] n = "body" -> IF bodyListeners > 0 THEN FALSE ELSE show
      [] OTHER -> show

(* Variant: .stop takes effect only on the element that was clicked       *)
(* (@click.self.stop); a click on a descendant bubbles through.            *)
RECURSIVE BubbleThrough(_, _)
BubbleThrough(n, show) ==
    LET after == ListenerAt(n, show)
    IN  IF n = "body" THEN after ELSE BubbleThrough(Parent[n], after)

Bubble_selfOnly(n, show) ==
    IF StopsAt(n) THEN ListenerAt(n, show) ELSE BubbleThrough(n, show)

(* Bubbling of a click from element n up to document.body.                 *)
RECURSIVE Bubble(_, _)
Bubble(n, show) ==
    LET after == ListenerAt(n, show)
    IN  IF StopsAt(n) \/ n = "body" THEN after
        ELSE Bubble(Parent[n], after)

----------------------------------------------------------------------------
(* Variants: ref(false) for userData; ref(true) for showUserOptions.       *)
InitUserData_false == JBool(FALSE)
InitShowUserOptions_true == TRUE

(* Initial values of the refs (lines 7-8).                                 *)
InitUserData == JNull
InitShowUserOptions == FALSE

(* No click dispatched yet.                                                *)
NoClick == [target |-> "none", popover |-> FALSE]

Init ==
    /\ userData = InitUserData
    /\ showUserOptions = InitShowUserOptions
    /\ lifecycle = "setup"
    /\ pc = "idle"
    /\ res = NoRes
    /\ bodyListeners = 0
    /\ route = "/"
    /\ location = "app"
    /\ lastClick = NoClick

(* The component is mounted; the hook starts and suspends at line 11.      *)
Mount ==
    /\ location = "app"
    /\ lifecycle = "setup"
    /\ lifecycle' = "mounted"
    /\ pc' = "awaitFetch"
    /\ UNCHANGED <<userData, showUserOptions, res, bodyListeners, route,
                   location, lastClick>>

(* Variant: the else branch resets userData to null.                       *)
ElseValue_null == JNull

(* The value line 15 stores.                                               *)
ElseValue == JBool(FALSE)

(* fetch resolves: lines 11-12 and, for a non-success status, lines 15-20. *)
FetchResolve ==
    /\ location = "app"
    /\ pc = "awaitFetch"
    /\ \E s \in Statuses, b \in Bodies :
          /\ res' = [status |-> s, body |-> b]
          /\ IF Ok(res')
             THEN /\ pc' = "awaitJson"
                  /\ UNCHANGED <<userData, bodyListeners>>
             ELSE /\ userData' = ElseValue
                  /\ bodyListeners' = bodyListeners + 1
                  /\ pc' = "done"
    /\ UNCHANGED <<showUserOptions, lifecycle, route, location, lastClick>>

(* fetch rejects: the await of line 11 throws, the hook's promise rejects. *)
FetchReject ==
    /\ location = "app"
    /\ pc = "awaitFetch"
    /\ pc' = "threw"
    /\ UNCHANGED <<userData, showUserOptions, lifecycle, res, bodyListeners,
                   route, location, lastClick>>

(* res.json() resolves: lines 13 and 18-20.                                *)
JsonResolve ==
    /\ location = "app"
    /\ pc = "awaitJson"
    /\ res.body # Malformed
    /\ userData' = res.body
    /\ bodyListeners' = bodyListeners + 1
    /\ pc' = "done"
    /\ UNCHANGED <<showUserOptions, lifecycle, res, route, location,
                   lastClick>>

(* res.json() rejects (malformed payload or a failure while reading).      *)
JsonReject ==
    /\ location = "app"
    /\ pc = "awaitJson"
    /\ pc' = "threw"
    /\ UNCHANGED <<userData, showUserOptions, lifecycle, res, bodyListeners,
                   route, location, lastClick>>

(* The component is unmounted; the script registers no teardown hook.      *)
Unmount ==
    /\ location = "app"
    /\ lifecycle = "mounted"
    /\ lifecycle' = "unmounted"
    /\ UNCHANGED <<userData, showUserOptions, pc, res, bodyListeners, route,
                   location, lastClick>>

(* One click on a rendered element, dispatched to its end.                 *)
Click ==
    /\ location = "app"
    /\ \E target \in Rendered :
          /\ showUserOptions' = Bubble(target, showUserOptions)
          /\ route' = IF target \in DOMAIN LinkTo THEN LinkTo[target]
                      ELSE route
          /\ location' = IF target = "signout" THEN "/api/auth/signout"
                         ELSE location
          /\ lastClick' = [target |-> target,
                           popover |-> "options" \in Rendered]
    /\ UNCHANGED <<userData, lifecycle, pc, res, bodyListeners>>

Next ==
    \/ Mount
    \/ FetchResolve
    \/ FetchReject
    \/ JsonResolve
    \/ JsonReject
    \/ Unmount
    \/ Click

Spec == Init /\ [][Next]_vars

----------------------------------------------------------------------------
(* Properties.                                                             *)

(* The identity fetch failed: a non-success status, or the hook threw at   *)
(* one of its awaits.                                                      *)
FetchFailed == pc = "threw" \/ (res # NoRes /\ ~Ok(res))

(* C1: whenever the identity fetch has failed in any way (non-success      *)
(* status, rejected request, rejected body read), the component is in the  *)
(* unauthenticated state and, while mounted, renders the Forbidden view.   *)
C1_AnyFailureShowsForbidden ==
    FetchFailed =>
        /\ AuthState = "absent"
        /\ lifecycle = "mounted" => Output = "Forbidden"

(* C2: once the endpoint has resolved with a non-success status, the shell *)
(* is never in the document, and a mounted component renders the           *)
(* Forbidden view, whatever clicks follow.                                 *)
C2_NonSuccessNeverShell ==
    (res # NoRes /\ ~Ok(res)) =>
        /\ Output # "Shell"
        /\ Rendered \cap ShellNodes = {}
        /\ lifecycle = "mounted" => Output = "Forbidden"

C2_Witness ==
    /\ res.status = 403
    /\ lifecycle = "mounted"
    /\ Output = "Forbidden"
    /\ lastClick.target = "Forbidden"

(* C3: once the endpoint has resolved with a success status and a session  *)
(* body has been read, a mounted component renders the shell, and the      *)
(* badge shows that body's displayName.                                    *)
C3_SessionShowsShell ==
    (pc = "done" /\ Ok(res) /\ IsSession(res.body)
        /\ lifecycle = "mounted") =>
        /\ Output = "Shell"
        /\ DisplayedName = res.body.o.displayName.s

C3_Witness ==
    /\ pc = "done"
    /\ res.status = 200
    /\ IsSession(res.body)
    /\ lifecycle = "mounted"
    /\ Output = "Shell"
    /\ DisplayedName = "A. User"

(* C4: before the identity fetch resolves, neither the shell nor the       *)
(* Forbidden view is rendered: the document holds nothing of the           *)
(* component, whatever clicks happen.                                      *)
C4_NothingBeforeResolve ==
    pc \in {"idle", "awaitFetch"} =>
        /\ Output = "Nothing"
        /\ Rendered = {"body"}

C4_Witness ==
    /\ pc = "awaitFetch"
    /\ lifecycle = "mounted"
    /\ lastClick.target = "body"

(* C5: the authentication state is one of unknown, absent, present, and    *)
(* the transition out of unknown is never skipped: once the mount hook has *)
(* run to its end, the state is absent or present.                         *)
C5_TransitionNeverSkipped ==
    /\ AuthState \in {"unknown", "absent", "present"}
    /\ pc \in {"done", "threw"} => AuthState \in {"absent", "present"}

(* C6: after a click on the user badge has been dispatched to its end, the *)
(* component is authenticated and showUserOptions is true: the click did   *)
(* not reach the body listener.                                            *)
C6_BadgeClickOpens ==
    lastClick.target \in BadgeNodes =>
        /\ AuthState = "present"
        /\ showUserOptions

C6_Witness ==
    /\ lastClick.target = "user"
    /\ ~lastClick.popover
    /\ bodyListeners > 0
    /\ showUserOptions
    /\ "options" \in Rendered

(* C7 as stated, for a signed-in session: after a click, dispatched while  *)
(* the popover was in the document, on any element outside the popover,    *)
(* showUserOptions is false.                                               *)
C7_AnyOutsideClickHides ==
    (IsSession(userData) /\ lastClick.popover
        /\ lastClick.target \notin PopoverNodes) =>
        ~showUserOptions

(* C7 amended: after a click, dispatched while the popover was in the      *)
(* document, on any element outside the user badge (which contains the     *)
(* popover), showUserOptions is false.                                     *)
C7_OutsideBadgeClickHides ==
    (lastClick.popover
        /\ lastClick.target \notin (PopoverNodes \cup BadgeNodes)) =>
        ~showUserOptions

C7_Witness ==
    /\ lastClick.popover
    /\ lastClick.target = "RouterView"
    /\ lifecycle = "mounted"
    /\ ~showUserOptions

(* C8: after a click inside the popover has been dispatched to its end,    *)
(* showUserOptions is still true.                                          *)
C8_PopoverClickKeeps ==
    (lastClick.popover /\ lastClick.target \in PopoverNodes) =>
        showUserOptions

C8_Witness ==
    /\ lastClick.popover
    /\ lastClick.target = "data"
    /\ showUserOptions
    /\ "options" \in Rendered

(* C9: showUserOptions is true only if the authentication state is         *)
(* present.                                                                *)
C9_OptionsOnlyWhenPresent ==
    showUserOptions => AuthState = "present"

C9_Witness ==
    /\ showUserOptions
    /\ AuthState = "present"
    /\ lastClick.target \in BadgeNodes

(* C10: once the component is unmounted with the identity fetch still      *)
(* pending, no later step registers a click listener on document.body.     *)
C10_LateResultRegistersNothing ==
    [][(lifecycle = "unmounted" /\ pc \in {"awaitFetch", "awaitJson"})
          => bodyListeners' = bodyListeners]_vars

====
